---- MODULE Spec2Model ----
(***************************************************************************)
(* Model of the brilliant-monocle-driver Python package: the LineReader    *)
(* (line_reader.py), the batched() generator (batched.py) and the Monocle  *)
(* session (__init__.py).                                                  *)
(*                                                                         *)
(* Text is a sequence of Unicode code points, a bytes object a sequence of *)
(* integers 0..255.  None is the string "None".                            *)
(***************************************************************************)
EXTENDS Integers, Sequences, FiniteSets, TLC

VARIABLES
    line_reader,   \* LineReader: [current_line, lines, sep]
    fed,           \* observer: concatenation of every text given to input()
    got,           \* observer: concatenation of every get_lines() result
    b_iterable,    \* batched(): argument iterable
    b_length,      \* batched(): argument length
    b_cursor,      \* batched(): local cursor
    b_out,         \* observer: the chunks batched() has yielded so far
    b_pc,          \* batched(): "running" | "done"
    connected,     \* Monocle.connected
    client,        \* Monocle.client: None or the BleakClient
    out_channel,   \* Monocle.out_channel: None or the RX characteristic
    in_channel,    \* Monocle.in_channel: None or the TX characteristic
    address,       \* Monocle.address: None or a device address
    conn_pc,       \* connect(): "idle", or "awaiting" its transport calls
    conn_address,  \* connect(): self.address as read when the call began
    disc_pc,       \* disconnect(): "idle", or "awaiting" BleakClient.disconnect()
    line_listeners,            \* Monocle.line_listeners: the dict, as its items in insertion order
    next_line_listener_id,     \* the next value of itertools.count(1, 1)
    touch_events_installed,    \* Monocle.touch_events_installed
    a_callback,    \* Monocle.a_callback: None or a callable
    b_callback,    \* Monocle.b_callback: None or a callable
    send_pc,       \* send(): "idle", or "awaiting" a write_gatt_char to complete
    send_buffer,   \* send(): local buffer
    send_cursor,   \* send(): cursor of the batched() generator it iterates
    send_log,      \* observer: the last send() call: its argument, the chunks written, how it ended
    issued,        \* observer: the tokens add_line_listener has returned, in call order
    installs,      \* observer: install_touch_events() calls made / past send()'s check
    event,         \* observer: the last call made on the session and how it ended
    notify_log     \* observer: what the last _on_notify call dispatched

lrVars == <<line_reader, fed, got>>
batchVars == <<b_iterable, b_length, b_cursor, b_out, b_pc>>
connVars == <<connected, client, out_channel, in_channel, address>>
registryVars == <<line_listeners, next_line_listener_id, issued>>
touchVars == <<touch_events_installed, a_callback, b_callback>>
sendVars == <<send_pc, send_buffer, send_cursor, send_log>>
taskVars == <<conn_pc, conn_address, disc_pc>>
sessionVars == <<connVars, taskVars, registryVars, touchVars, sendVars, installs, event,
                 notify_log>>
vars == <<lrVars, batchVars, sessionVars>>

None == "None"

(***************************************************************************)
(* Bounds of the model.                                                    *)
(***************************************************************************)
\* Longest text handed to one LineReader.input() call in SpecLR.
MaxFragLen == 2
\* Longest total text fed to the LineReader in SpecLR.
MaxFed == 4
\* Longest buffer handed to batched() in SpecBatched.
MaxBuf == 4
\* Largest chunk length handed to batched() in SpecBatched.
MaxLength == 3
\* Most chunks SpecBatched lets one batched() generator yield.
MaxYields == 5
\* Most tokens handed out in one session.
MaxTokens == 2
\* Most install_touch_events() calls in one session.
MaxInstalls == 2
\* Longest text, after its padding, handed to send().
MaxPayloadLen == 2
\* Longest unfinished line SpecNotify lets the LineReader hold.
MaxPending == 1

(***************************************************************************)
(* Python built-ins used by the code.                                      *)
(***************************************************************************)
Min(a, b) == IF a < b THEN a ELSE b
Max(a, b) == IF a > b THEN a ELSE b

\* All sequences over S of length 0..n.
SeqsUpTo(S, n) == UNION {[1..k -> S] : k \in 0..n}

\* s[lo:hi] for a Python sequence s: negative indices count from the end,
\* indices are clamped to 0..len(s), an empty range is the empty sequence.
PySlice(s, lo, hi) ==
    LET n == Len(s)
        l == IF lo < 0 THEN Max(lo + n, 0) ELSE Min(lo, n)
        h == IF hi < 0 THEN Max(hi + n, 0) ELSE Min(hi, n)
    IN IF l < h THEN SubSeq(s, l + 1, h) ELSE <<>>

\* Whether sep occurs in s at (1-based) position i.
OccursAt(s, sep, i) ==
    /\ i >= 1
    /\ i + Len(sep) - 1 <= Len(s)
    /\ \A j \in 1..Len(sep) : s[i + j - 1] = sep[j]

\* needle in haystack, for Python strings.
Contains(haystack, needle) ==
    \E i \in 1..(Len(haystack) - Len(needle) + 1) : OccursAt(haystack, needle, i)

\* str.split(sep), sep non-empty: cut at the leftmost occurrence, go on after it.
RECURSIVE Split(_, _)
Split(s, sep) ==
    IF Contains(s, sep)
    THEN LET i == CHOOSE k \in 1..Len(s) :
                      /\ OccursAt(s, sep, k)
                      /\ \A j \in 1..(k - 1) : ~OccursAt(s, sep, j)
         IN <<SubSeq(s, 1, i - 1)>> \o Split(SubSeq(s, i + Len(sep), Len(s)), sep)
    ELSE <<s>>

\* Concatenation of a sequence of sequences.
RECURSIVE Concat(_)
Concat(ss) == IF ss = <<>> THEN <<>> ELSE Head(ss) \o Concat(Tail(ss))

(***************************************************************************)
(* line_reader.py                                                          *)
(***************************************************************************)
\* LineReader.__init__
LineReader(sep) == [current_line |-> <<>>, lines |-> <<>>, sep |-> sep]

\* The list newtext.split(self.sep) that LineReader.input cuts newtext into.
InputSplit(lr, newtext) == Split(newtext, lr.sep)

\* LineReader.input: the reader after input(newtext).
LineReaderInput(lr, newtext) ==
    LET split == InputSplit(lr, newtext)
        newlines == [split EXCEPT ![1] = lr.current_line \o split[1]]
        new_current_line == newlines[Len(newlines)]
        new_emittable_lines == SubSeq(newlines, 1, Len(newlines) - 1)
    IN [lr EXCEPT !.current_line = new_current_line,
                  !.lines = lr.lines \o new_emittable_lines]

\* A get_lines that returns the lines and keeps them.
LineReaderGetLines_Keeps(lr) ==
    [emitting_lines |-> lr.lines, reader |-> lr]

\* LineReader.get_lines: the list returned and the reader left behind.
LineReaderGetLines(lr) ==
    [emitting_lines |-> lr.lines, reader |-> [lr EXCEPT !.lines = <<>>]]

(***************************************************************************)
(* batched.py                                                              *)
(***************************************************************************)
\* The loop condition of batched(): cursor < len(iterable).
BatchedHasNext(iterable, cursor) == cursor < Len(iterable)

\* The chunk batched() yields at cursor: iterable[cursor:cursor + length].
BatchedYield(iterable, length, cursor) == PySlice(iterable, cursor, cursor + length)

\* A batched() that steps one element too far after every chunk.
BatchedAdvance_Skips(length, cursor) == cursor + length + 1

\* cursor += length
BatchedAdvance(length, cursor) == cursor + length

(***************************************************************************)
(* __init__.py: the Monocle session.                                       *)
(***************************************************************************)
\* Monocle.MTU_SIZE
MTU_SIZE == 128

\* TOUCH_CALLBACK_COMMAND
TOUCH_CALLBACK_COMMAND ==
    <<10, 105, 109, 112, 111, 114, 116, 32, 116, 111, 117, 99, 104, 10, 116,
      111, 117, 99, 104, 46, 99, 97, 108, 108, 98, 97, 99, 107, 40, 116, 111,
      117, 99, 104, 46, 65, 44, 32, 108, 97, 109, 98, 100, 97, 32, 120, 58,
      32, 112, 114, 105, 110, 116, 40, 34, 91, 69, 86, 69, 78, 84, 58, 116,
      111, 117, 99, 104, 45, 65, 93, 34, 41, 41, 10, 116, 111, 117, 99, 104,
      46, 99, 97, 108, 108, 98, 97, 99, 107, 40, 116, 111, 117, 99, 104, 46,
      66, 44, 32, 108, 97, 109, 98, 100, 97, 32, 120, 58, 32, 112, 114, 105,
      110, 116, 40, 34, 91, 69, 86, 69, 78, 84, 58, 116, 111, 117, 99, 104,
      45, 66, 93, 34, 41, 41, 10>>

\* "[EVENT:touch-A]" and "[EVENT:touch-B]"
TOUCH_A_MARKER == <<91, 69, 86, 69, 78, 84, 58, 116, 111, 117, 99, 104, 45, 65, 93>>
TOUCH_B_MARKER == <<91, 69, 86, 69, 78, 84, 58, 116, 111, 117, 99, 104, 45, 66, 93>>

\* input.replace("\n", "\r\n"): every line feed becomes carriage return, line
\* feed.  The text is worked on in halves to keep the evaluation shallow; a
\* part without a line feed is left as it is.
RECURSIVE ReplaceLF(_)
ReplaceLF(text) ==
    IF \A i \in 1..Len(text) : text[i] # 10 THEN text
    ELSE IF Len(text) = 1 THEN <<13, 10>>
    ELSE LET m == Len(text) \div 2
         IN ReplaceLF(SubSeq(text, 1, m)) \o ReplaceLF(SubSeq(text, m + 1, Len(text)))

\* str.encode(): UTF-8, for code points below 0x800, worked on in halves; a
\* code point below 0x80 is its own encoding.
RECURSIVE Utf8Encode(_)
Utf8Encode(text) ==
    IF \A i \in 1..Len(text) : text[i] < 128 THEN text
    ELSE IF Len(text) = 1 THEN <<192 + (text[1] \div 64), 128 + (text[1] % 64)>>
    ELSE LET m == Len(text) \div 2
         IN Utf8Encode(SubSeq(text, 1, m)) \o Utf8Encode(SubSeq(text, m + 1, Len(text)))

\* The text send() puts on the wire for input: Ctrl-C, Ctrl-A, the input with
\* its line ends replaced, Ctrl-D.
SendWrap(input) == <<3, 1>> \o ReplaceLF(input) \o <<4>>

\* A chunk length that leaves no room for the transport's header.
SendChunkLength_NoOverhead == MTU_SIZE

\* The chunk length send() hands to batched().
SendChunkLength == MTU_SIZE - 3

\* The log of a call that was not _on_notify.
NoNotify ==
    [text |-> <<>>, registered |-> <<>>, lines |-> <<>>, calls |-> <<>>, error |-> "none",
     error_at |-> 0]

\* Monocle.__init__ (address is the constructor's argument).
SessionFresh ==
    /\ connected = FALSE
    /\ client = None
    /\ out_channel = None
    /\ in_channel = None
    /\ address \in {None, "addr"}
    /\ line_listeners = <<>>
    /\ next_line_listener_id = 1
    /\ touch_events_installed = FALSE
    /\ a_callback = None
    /\ b_callback = None
    /\ conn_pc = "idle"
    /\ conn_address = None
    /\ disc_pc = "idle"
    /\ send_pc = "idle"
    /\ send_buffer = <<>>
    /\ send_cursor = 0
    /\ send_log = [caller |-> "none", input |-> <<>>, writes |-> <<>>, outcome |-> "none"]
    /\ issued = <<>>
    /\ installs = [calls |-> 0, sent |-> 0]
    /\ event = [op |-> "__init__", outcome |-> "ok", what |-> "", arg |-> 0, io |-> <<>>]
    /\ notify_log = NoNotify

\* The listeners a caller may hand to add_line_listener: one that only takes
\* the line, and one that calls remove_line_listener(target) when invoked.
PlainListener == [kind |-> "plain", target |-> 0]
RemovingListener(t) == [kind |-> "remove", target |-> t]
\* The bound method self._touch_line_listener.
TouchListener == [kind |-> "touch", target |-> 0]

\* The keys of the dict.
Tokens(listeners) == {listeners[i].token : i \in 1..Len(listeners)}

\* self.line_listeners[listener_id] = line_listener, for a fresh listener_id.
DictSet(listeners, token, listener) ==
    Append(listeners, [token |-> token, listener |-> listener])

\* del self.line_listeners[token], for a token that is a key.
RECURSIVE DictDel(_, _)
DictDel(listeners, token) ==
    IF listeners = <<>> THEN <<>>
    ELSE IF Head(listeners).token = token THEN Tail(listeners)
    ELSE <<Head(listeners)>> \o DictDel(Tail(listeners), token)

\* next(self.next_line_listener_id): the value returned and the counter after.
NextListenerId(counter) == [value |-> counter, counter |-> counter + 1]

\* An add_line_listener that numbers a listener by the size of the dict.
AddListener_BySize(listeners, counter, line_listener) ==
    [listeners |-> DictSet(listeners, Len(listeners) + 1, line_listener),
     counter |-> counter + 1,
     token |-> Len(listeners) + 1]

\* Monocle.add_line_listener: registry, counter and returned token.
AddListener(listeners, counter, line_listener) ==
    LET n == NextListenerId(counter)
    IN [listeners |-> DictSet(listeners, n.value, line_listener),
        counter |-> n.counter,
        token |-> n.value]

\* A remove_line_listener that ignores a token it does not know
\* (self.line_listeners.pop(token, None)).
RemoveListener_Silent(listeners, token) ==
    [listeners |-> DictDel(listeners, token), outcome |-> "ok"]

\* Monocle.remove_line_listener: registry after, and how the call ended.
RemoveListener(listeners, token) ==
    IF token \in Tokens(listeners)
    THEN [listeners |-> DictDel(listeners, token), outcome |-> "ok"]
    ELSE [listeners |-> listeners, outcome |-> "KeyError"]

\* add_line_listener(line_listener), called by the user.
AddLineListener(listenerSet) ==
    \E l \in listenerSet :
        LET r == AddListener(line_listeners, next_line_listener_id, l)
        IN /\ line_listeners' = r.listeners
           /\ next_line_listener_id' = r.counter
           /\ issued' = Append(issued, r.token)
           /\ event' = [op |-> "add_line_listener", outcome |-> "ok", what |-> "", arg |-> 0, io |-> <<>>]
           /\ notify_log' = NoNotify
           /\ UNCHANGED <<lrVars, batchVars, connVars, taskVars, touchVars, sendVars, installs>>

\* remove_line_listener(token), called by the user.
RemoveLineListener(tokenSet) ==
    \E token \in tokenSet :
        LET r == RemoveListener(line_listeners, token)
        IN /\ line_listeners' = r.listeners
           /\ event' = [op |-> "remove_line_listener", outcome |-> r.outcome,
                        what |-> "", arg |-> token, io |-> <<>>]
           /\ notify_log' = NoNotify
           /\ UNCHANGED <<lrVars, batchVars, connVars, taskVars, touchVars, sendVars, installs,
                          next_line_listener_id, issued>>

\* set_a_touch_callback(a_callback)
SetATouchCallback ==
    \E cb \in {None, "a_cb"} :
        /\ a_callback' = cb
        /\ event' = [op |-> "set_a_touch_callback", outcome |-> "ok", what |-> "", arg |-> 0, io |-> <<>>]
        /\ notify_log' = NoNotify
        /\ UNCHANGED <<lrVars, batchVars, connVars, taskVars, registryVars, sendVars, installs,
                       touch_events_installed, b_callback>>

\* set_b_touch_callback(b_callback)
SetBTouchCallback ==
    \E cb \in {None, "b_cb"} :
        /\ b_callback' = cb
        /\ event' = [op |-> "set_b_touch_callback", outcome |-> "ok", what |-> "", arg |-> 0, io |-> <<>>]
        /\ notify_log' = NoNotify
        /\ UNCHANGED <<lrVars, batchVars, connVars, taskVars, registryVars, sendVars, installs,
                       touch_events_installed, a_callback>>

\* What one connect() call meets: the address known or not, the number of
\* devices named "monocle" a scan finds, whether BleakClient.connect() succeeds,
\* which endpoints the device offers, whether start_notify succeeds.
GoodWorld ==
    [found |-> 1, link |-> TRUE, uart |-> TRUE, tx |-> TRUE, rx |-> TRUE, notify |-> TRUE]

\* The good world and each world that differs from it in one respect.
ConnectWorlds ==
    {GoodWorld,
     [GoodWorld EXCEPT !.found = 0], [GoodWorld EXCEPT !.found = 2],
     [GoodWorld EXCEPT !.link = FALSE], [GoodWorld EXCEPT !.uart = FALSE],
     [GoodWorld EXCEPT !.tx = FALSE], [GoodWorld EXCEPT !.rx = FALSE],
     [GoodWorld EXCEPT !.notify = FALSE]}

\* A scan that takes the first of several devices (raises for none only).
DiscoveryFails_OnlyNone(found) == found = 0

\* _find_address_of_monocle: len(monocles) != 1 raises.
DiscoveryFails(found) == found # 1

\* The address of the one device a scan finds.
DiscoveredAddress == "found"

\* connect(): address_to_connect, from self.address or from the scan.
ConnectTarget(addr) == IF addr = None THEN DiscoveredAddress ELSE addr

\* One call on the transport: its name, the address it is about, what it gave.
Call(name, on, gave) == [call |-> name, on |-> on, gave |-> gave]

\* connect(), _find_address_of_monocle() and _get_uart(), for self.address =
\* addr: how the call ends in world w, the address it connects to, and the
\* transport calls it makes on the way with what each gave.
ConnectRun(addr, w) ==
    LET target == ConnectTarget(addr)
        scan == IF addr = None
                THEN <<Call("discover", None,
                            IF w.found = 0 THEN "0" ELSE IF w.found = 1 THEN "1" ELSE "many")>>
                ELSE <<>>
        link == scan \o <<Call("connect", target, IF w.link THEN "ok" ELSE "BleakError")>>
        services == link \o <<Call("services", target, IF w.uart THEN "uart" ELSE "none")>>
        chars == services \o
                 <<Call("characteristics", target,
                        IF w.tx /\ w.rx THEN "tx+rx" ELSE IF w.rx THEN "rx" ELSE "tx")>>
        notify == chars \o
                  <<Call("start_notify", target, IF w.notify THEN "ok" ELSE "BleakError")>>
    IN IF addr = None /\ DiscoveryFails(w.found)
       THEN [outcome |-> "MonocleException", what |-> "Expected 1 device", io |-> scan,
             target |-> None]
       ELSE IF ~w.link
       THEN [outcome |-> "BleakError", what |-> "connect", io |-> link, target |-> target]
       ELSE IF ~w.uart
       THEN [outcome |-> "MonocleException", what |-> "No UART service found",
             io |-> services, target |-> target]
       ELSE IF ~w.tx
       THEN [outcome |-> "MonocleException", what |-> "Unable to find TX characteristic",
             io |-> chars, target |-> target]
       ELSE IF ~w.rx
       THEN [outcome |-> "NameError", what |-> "MonocleExcpetion", io |-> chars,
             target |-> target]
       ELSE IF ~w.notify
       THEN [outcome |-> "BleakError", what |-> "start_notify", io |-> notify,
             target |-> target]
       ELSE [outcome |-> "ok", what |-> "", io |-> notify, target |-> target]

\* A connect() that stores the client as soon as the link is up, before the
\* endpoints are found and the subscription is made.
ConnectStore_Early(r) ==
    IF r.outcome = "ok"
    THEN /\ client' = "client"
         /\ out_channel' = "rx"
         /\ in_channel' = "tx"
         /\ address' = r.target
         /\ connected' = TRUE
    ELSE IF \E i \in 1..Len(r.io) : r.io[i].call = "connect" /\ r.io[i].gave = "ok"
    THEN /\ client' = "client"
         /\ UNCHANGED <<out_channel, in_channel, address, connected>>
    ELSE UNCHANGED connVars

\* connect(), lines 92-97: what a call that ended as r leaves in the session.
ConnectStore(r) ==
    IF r.outcome = "ok"
    THEN /\ client' = "client"
         /\ out_channel' = "rx"
         /\ in_channel' = "tx"
         /\ address' = r.target
         /\ connected' = TRUE
    ELSE UNCHANGED connVars

\* connect() when nothing else runs during its awaits: the session fields are
\* assigned after the last await, in one go.
Connect ==
    \E w \in ConnectWorlds :
        \E r \in {ConnectRun(address, w)} :
           /\ conn_pc = "idle"
           /\ event' = [op |-> "connect", outcome |-> r.outcome, what |-> r.what, arg |-> 0,
                        io |-> r.io]
           /\ ConnectStore(r)
           /\ notify_log' = NoNotify
           /\ UNCHANGED <<lrVars, batchVars, taskVars, registryVars, touchVars, sendVars,
                          installs>>

\* connect() up to its first await: it has read self.address (line 84).
ConnectBegin ==
    /\ conn_pc = "idle"
    /\ conn_pc' = "awaiting"
    /\ conn_address' = address
    /\ event' = [op |-> "connect", outcome |-> "pending", what |-> "", arg |-> 0, io |-> <<>>]
    /\ notify_log' = NoNotify
    /\ UNCHANGED <<lrVars, batchVars, connVars, disc_pc, registryVars, touchVars, sendVars,
                   installs>>

\* connect() from its awaits to its end, in the world they met.
ConnectResume ==
    \E w \in ConnectWorlds :
        \E r \in {ConnectRun(conn_address, w)} :
           /\ conn_pc = "awaiting"
           /\ conn_pc' = "idle"
           /\ conn_address' = None
           /\ event' = [op |-> "connect", outcome |-> r.outcome, what |-> r.what, arg |-> 0,
                        io |-> r.io]
           /\ ConnectStore(r)
           /\ notify_log' = NoNotify
           /\ UNCHANGED <<lrVars, batchVars, disc_pc, registryVars, touchVars, sendVars,
                          installs>>

\* A disconnect() without the early return.
DisconnectIsNoop_Never(conn) == FALSE

\* disconnect(): the early return of an unconnected session.
DisconnectIsNoop(conn) == ~conn

\* disconnect(), lines 108-111: the fields it clears after its await.
DisconnectStore ==
    /\ client' = None
    /\ out_channel' = None
    /\ in_channel' = None
    /\ connected' = FALSE
    /\ UNCHANGED address

\* disconnect() when nothing else runs during its await; ok is whether
\* BleakClient.disconnect() succeeds.
Disconnect ==
    \E ok \in BOOLEAN :
        /\ disc_pc = "idle"
        /\ IF DisconnectIsNoop(connected)
           THEN /\ event' = [op |-> "disconnect", outcome |-> "ok", what |-> "", arg |-> 0, io |-> <<>>]
                /\ UNCHANGED connVars
           ELSE IF ~ok
           THEN /\ event' = [op |-> "disconnect", outcome |-> "BleakError",
                             what |-> "disconnect", arg |-> 0,
                             io |-> <<Call("disconnect", address, "BleakError")>>]
                /\ UNCHANGED connVars
           ELSE /\ event' = [op |-> "disconnect", outcome |-> "ok", what |-> "", arg |-> 0,
                             io |-> <<Call("disconnect", address, "ok")>>]
                /\ DisconnectStore
        /\ notify_log' = NoNotify
        /\ UNCHANGED <<lrVars, batchVars, taskVars, registryVars, touchVars, sendVars,
                       installs>>

\* disconnect() up to its await: the early return, or the call of
\* self.client.disconnect() (an AttributeError if self.client is None).
DisconnectBegin ==
    /\ disc_pc = "idle"
    /\ IF DisconnectIsNoop(connected)
       THEN /\ event' = [op |-> "disconnect", outcome |-> "ok", what |-> "", arg |-> 0, io |-> <<>>]
            /\ UNCHANGED disc_pc
       ELSE IF client = None
       THEN /\ event' = [op |-> "disconnect", outcome |-> "AttributeError", what |-> "",
                         arg |-> 0, io |-> <<>>]
            /\ UNCHANGED disc_pc
       ELSE /\ event' = [op |-> "disconnect", outcome |-> "pending", what |-> "", arg |-> 0,
                         io |-> <<Call("disconnect", address, "pending")>>]
            /\ disc_pc' = "awaiting"
    /\ notify_log' = NoNotify
    /\ UNCHANGED <<lrVars, batchVars, connVars, conn_pc, conn_address, registryVars,
                   touchVars, sendVars, installs>>

\* disconnect() from its await to its end; ok is whether
\* BleakClient.disconnect() succeeded.
DisconnectResume ==
    \E ok \in BOOLEAN :
        /\ disc_pc = "awaiting"
        /\ disc_pc' = "idle"
        /\ IF ok
           THEN /\ event' = [op |-> "disconnect", outcome |-> "ok", what |-> "awaited",
                             arg |-> 0, io |-> <<>>]
                /\ DisconnectStore
           ELSE /\ event' = [op |-> "disconnect", outcome |-> "BleakError",
                             what |-> "disconnect", arg |-> 0, io |-> <<>>]
                /\ UNCHANGED connVars
        /\ notify_log' = NoNotify
        /\ UNCHANGED <<lrVars, batchVars, conn_pc, conn_address, registryVars, touchVars,
                       sendVars, installs>>

\* A send() that writes without looking at self.connected.
SendRefused_Never(conn) == FALSE

\* send(): "if not self.connected: raise MonocleException".
SendRefused(conn) == ~conn

\* A send() loop that writes on whatever client it is given.
SendLoop_Blind(cl, buffer, cursor, writes) ==
    IF BatchedHasNext(buffer, cursor)
    THEN [pc |-> "awaiting",
          writes |-> Append(writes, BatchedYield(buffer, SendChunkLength, cursor)),
          outcome |-> "pending"]
    ELSE [pc |-> "idle", writes |-> writes, outcome |-> "returned"]

\* send(): the for loop at the generator position cursor.  If a chunk is left,
\* self.client.write_gatt_char(self.out_channel, chunk) is called and awaited
\* (an AttributeError if self.client is None); if none is left, send() returns.
SendLoop(cl, buffer, cursor, writes) ==
    IF BatchedHasNext(buffer, cursor)
    THEN IF cl = None
         THEN [pc |-> "idle", writes |-> writes, outcome |-> "AttributeError"]
         ELSE [pc |-> "awaiting",
               writes |-> Append(writes, BatchedYield(buffer, SendChunkLength, cursor)),
               outcome |-> "pending"]
    ELSE [pc |-> "idle", writes |-> writes, outcome |-> "returned"]

\* A send() that goes on to its next chunk whether its write failed or not.
SendAfterWrite_Ignores(ok, cl, buffer, cursor, writes) ==
    SendLoop(cl, buffer, cursor, writes)

\* send() when the write it awaited has completed (ok) or raised: the
\* exception of a failed write leaves the loop and send().
SendAfterWrite(ok, cl, buffer, cursor, writes) ==
    IF ok THEN SendLoop(cl, buffer, cursor, writes)
    ELSE [pc |-> "idle", writes |-> writes, outcome |-> "BleakError"]

\* A call of send(input) by caller, up to its first await or its end.
SendBegin(caller, input) ==
    IF SendRefused(connected)
    THEN /\ send_log' = [caller |-> caller, input |-> input, writes |-> <<>>,
                         outcome |-> "MonocleException"]
         /\ UNCHANGED <<send_pc, send_buffer, send_cursor>>
    ELSE \E buffer \in {Utf8Encode(SendWrap(input))} :
         \E r \in {SendLoop(client, buffer, 0, <<>>)} :
            /\ send_pc' = r.pc
            /\ send_buffer' = IF r.pc = "idle" THEN <<>> ELSE buffer
            /\ send_cursor' = 0
            /\ send_log' = [caller |-> caller, input |-> input, writes |-> r.writes,
                            outcome |-> r.outcome]

\* send(input), called by the user while no other send is in flight.
Send(inputSet) ==
    \E input \in inputSet :
        /\ send_pc = "idle"
        /\ SendBegin("send", input)
        /\ event' = [op |-> "send", outcome |-> send_log'.outcome, what |-> "", arg |-> 0, io |-> <<>>]
        /\ notify_log' = NoNotify
        /\ UNCHANGED <<lrVars, batchVars, connVars, taskVars, registryVars, touchVars, installs>>

\* The write_gatt_char that send() awaits completes (ok) or raises; send() goes on to
\* its next chunk or ends, and its locals go when it ends.  An
\* install_touch_events() awaiting this send ends the way the send does.
SendResume ==
    \E ok \in BOOLEAN :
        /\ send_pc = "awaiting"
        /\ \E cursor \in {BatchedAdvance(SendChunkLength, send_cursor)} :
           \E r \in {SendAfterWrite(ok, client, send_buffer, cursor, send_log.writes)} :
              /\ send_pc' = r.pc
              /\ send_cursor' = IF r.pc = "idle" THEN 0 ELSE cursor
              /\ send_buffer' = IF r.pc = "idle" THEN <<>> ELSE send_buffer
              /\ send_log' = [send_log EXCEPT !.writes = r.writes, !.outcome = r.outcome]
              /\ UNCHANGED installs
        /\ event' = [op |-> "write_gatt_char", outcome |-> IF ok THEN "ok" ELSE "BleakError",
                     what |-> "", arg |-> 0, io |-> <<>>]
        /\ notify_log' = NoNotify
        /\ UNCHANGED <<lrVars, batchVars, connVars, taskVars, registryVars, touchVars>>

\* install_touch_events(): "if not self.touch_events_installed".
InstallRegisters(installed) == ~installed

\* install_touch_events(), up to the first await of its send().
InstallTouchEvents ==
    /\ send_pc = "idle"
    /\ IF InstallRegisters(touch_events_installed)
       THEN LET r == AddListener(line_listeners, next_line_listener_id, TouchListener)
            IN /\ touch_events_installed' = TRUE
               /\ line_listeners' = r.listeners
               /\ next_line_listener_id' = r.counter
               /\ issued' = Append(issued, r.token)
       ELSE UNCHANGED <<touch_events_installed, registryVars>>
    /\ SendBegin("install_touch_events", TOUCH_CALLBACK_COMMAND)
    /\ installs' = [installs EXCEPT !.calls = @ + 1,
                                    !.sent = IF SendRefused(connected) THEN @ ELSE @ + 1]
    /\ event' = [op |-> "install_touch_events", outcome |-> send_log'.outcome, what |-> "",
                 arg |-> 0, io |-> <<>>]
    /\ notify_log' = NoNotify
    /\ UNCHANGED <<lrVars, batchVars, connVars, taskVars, a_callback, b_callback>>

\* bytes.decode("utf-8") for one- and two-byte sequences: the text, or the
\* failure of a byte that starts or continues no such sequence.
RECURSIVE Utf8Decode(_)
Utf8Decode(bytes) ==
    IF bytes = <<>> THEN [ok |-> TRUE, text |-> <<>>]
    ELSE LET b == Head(bytes)
         IN IF b < 128
            THEN LET r == Utf8Decode(Tail(bytes))
                 IN [ok |-> r.ok, text |-> <<b>> \o r.text]
            ELSE IF /\ b >= 194
                    /\ b <= 223
                    /\ Len(bytes) >= 2
                    /\ bytes[2] >= 128
                    /\ bytes[2] <= 191
            THEN LET r == Utf8Decode(Tail(Tail(bytes)))
                 IN [ok |-> r.ok, text |-> <<(b - 192) * 64 + (bytes[2] - 128)>> \o r.text]
            ELSE [ok |-> FALSE, text |-> <<>>]

\* A touch listener that stops at the first marker it finds (elif).
TouchLineListener_FirstOnly(line, a_cb, b_cb) ==
    IF Contains(line, TOUCH_A_MARKER) /\ a_cb # None THEN <<a_cb>>
    ELSE IF Contains(line, TOUCH_B_MARKER) /\ b_cb # None THEN <<b_cb>>
    ELSE <<>>

\* Monocle._touch_line_listener: the callbacks it calls for line, in order.
TouchLineListener(line, a_cb, b_cb) ==
    (IF Contains(line, TOUCH_A_MARKER) /\ a_cb # None THEN <<a_cb>> ELSE <<>>)
        \o (IF Contains(line, TOUCH_B_MARKER) /\ b_cb # None THEN <<b_cb>> ELSE <<>>)

\* listener(line) for the dict item e: the call is logged with the callbacks
\* it fired; a removing listener calls remove_line_listener(target), whose
\* KeyError comes out of the listener.
Invoke(e, k, line, st, a_cb, b_cb) ==
    LET fired == IF e.listener.kind = "touch" THEN TouchLineListener(line, a_cb, b_cb)
                 ELSE <<>>
        call == [token |-> e.token, kind |-> e.listener.kind, k |-> k, line |-> line,
                 fired |-> fired]
        r == IF e.listener.kind = "remove"
             THEN RemoveListener(st.listeners, e.listener.target)
             ELSE [listeners |-> st.listeners, outcome |-> "ok"]
    IN [listeners |-> r.listeners,
        calls |-> Append(st.calls, call),
        error |-> IF r.outcome = "ok" THEN "none" ELSE r.outcome,
        error_at |-> IF r.outcome = "ok" THEN 0 ELSE k]

\* The dict iterator's check on every step: the dict's size is no longer the
\* size it had when the iteration started.
DictChanged(size, listeners) == Len(listeners) # size

\* "for listener in self.line_listeners.values(): listener(line)" from item i
\* on, for line number k of the notification and a dict that had the items items0 when the loop started.  Every
\* step of the iterator, the one that finds it exhausted too, first raises
\* RuntimeError if the dict has changed size.
RECURSIVE DispatchFrom(_, _, _, _, _, _, _)
DispatchFrom(i, items0, k, line, st, a_cb, b_cb) ==
    IF DictChanged(Len(items0), st.listeners)
    THEN [st EXCEPT !.error = "RuntimeError", !.error_at = k]
    ELSE IF i > Len(items0) THEN st
    ELSE LET r == Invoke(items0[i], k, line, st, a_cb, b_cb)
         IN IF r.error # "none" THEN r
            ELSE DispatchFrom(i + 1, items0, k, line, r, a_cb, b_cb)

\* "for line in self.line_reader.get_lines(): ..." from line k on.
RECURSIVE DispatchLines(_, _, _, _, _)
DispatchLines(k, lines, st, a_cb, b_cb) ==
    IF k > Len(lines) THEN st
    ELSE LET r == DispatchFrom(1, st.listeners, k, lines[k], st, a_cb, b_cb)
         IN IF r.error # "none" THEN r
            ELSE DispatchLines(k + 1, lines, r, a_cb, b_cb)

\* Monocle._on_notify(channel, bytes_in), called by the transport for a
\* notification of the subscribed characteristic.
OnNotify(bytesSet) ==
    \E bytes_in \in bytesSet :
        \E d \in {Utf8Decode(bytes_in)} :
            /\ connected
            /\ IF ~d.ok
               THEN /\ event' = [op |-> "_on_notify", outcome |-> "UnicodeDecodeError",
                                 what |-> "", arg |-> 0, io |-> <<>>]
                    /\ notify_log' = NoNotify
                    /\ UNCHANGED <<line_reader, line_listeners>>
               ELSE \E g \in {LineReaderGetLines(LineReaderInput(line_reader, d.text))} :
                    \E r \in {DispatchLines(1, g.emitting_lines,
                                            [listeners |-> line_listeners, calls |-> <<>>,
                                             error |-> "none", error_at |-> 0],
                                            a_callback, b_callback)} :
                        /\ line_reader' = g.reader
                        /\ line_listeners' = r.listeners
                        /\ notify_log' = [text |-> d.text,
                                          registered |-> line_listeners,
                                          lines |-> g.emitting_lines,
                                          calls |-> r.calls,
                                          error |-> r.error,
                                          error_at |-> r.error_at]
                        /\ event' = [op |-> "_on_notify",
                                     outcome |-> IF r.error = "none" THEN "ok" ELSE r.error,
                                     what |-> "", arg |-> 0, io |-> <<>>]
            /\ UNCHANGED <<fed, got, batchVars, connVars, taskVars, next_line_listener_id, issued,
                           touchVars, sendVars, installs>>

(***************************************************************************)
(* SpecLR: one LineReader('\r\n') driven by input() and get_lines() calls. *)
(***************************************************************************)
\* The separator the Monocle session constructs its LineReader with.
SEP == <<13, 10>>

\* 'a', '\r', '\n'
LRAlphabet == {97, 13, 10}

\* The batched() variables when no generator is being run.
BatchedIdle ==
    /\ b_iterable = <<>>
    /\ b_length = 1
    /\ b_cursor = 0
    /\ b_out = <<>>
    /\ b_pc = "done"

\* The LineReader variables of a freshly constructed LineReader('\r\n').
LRFresh ==
    /\ line_reader = LineReader(SEP)
    /\ fed = <<>>
    /\ got = <<>>

LRInit == LRFresh /\ BatchedIdle /\ SessionFresh

LRDoInput ==
    \E newtext \in SeqsUpTo(LRAlphabet, MaxFragLen) :
        /\ Len(fed) + Len(newtext) <= MaxFed
        /\ line_reader' = LineReaderInput(line_reader, newtext)
        /\ fed' = fed \o newtext
        /\ UNCHANGED <<got, batchVars, sessionVars>>

LRDoGetLines ==
    LET r == LineReaderGetLines(line_reader)
    IN /\ line_reader' = r.reader
       /\ got' = got \o r.emitting_lines
       /\ UNCHANGED <<fed, batchVars, sessionVars>>

(***************************************************************************)
(* SpecBatched: one batched(iterable, length) generator run to exhaustion. *)
(***************************************************************************)
BatchedInit ==
    /\ LRFresh
    /\ SessionFresh
    /\ b_iterable \in SeqsUpTo({0, 1}, MaxBuf)
    /\ b_length \in (0 - 2)..MaxLength
    /\ b_cursor = 0
    /\ b_out = <<>>
    /\ b_pc = "running"

\* One pass of the while loop that yields a chunk.
BatchedStep ==
    /\ b_pc = "running"
    /\ BatchedHasNext(b_iterable, b_cursor)
    /\ Len(b_out) < MaxYields
    /\ b_out' = Append(b_out, BatchedYield(b_iterable, b_length, b_cursor))
    /\ b_cursor' = BatchedAdvance(b_length, b_cursor)
    /\ UNCHANGED <<b_iterable, b_length, b_pc, lrVars, sessionVars>>

\* The loop condition fails: the generator is exhausted.
BatchedStop ==
    /\ b_pc = "running"
    /\ ~BatchedHasNext(b_iterable, b_cursor)
    /\ b_pc' = "done"
    /\ UNCHANGED <<b_iterable, b_length, b_cursor, b_out, lrVars, sessionVars>>

LRNext == LRDoInput \/ LRDoGetLines
SpecLR == LRInit /\ [][LRNext]_vars

BatchedNext == BatchedStep \/ BatchedStop
SpecBatched == BatchedInit /\ [][BatchedNext]_vars

(***************************************************************************)
(* Spec: one Monocle session used by its caller: connect, disconnect,      *)
(* send, install_touch_events, add_line_listener, remove_line_listener.    *)
(***************************************************************************)
\* n times 'a'.
Pad(n) == [i \in 1..n |-> 97]

\* Texts sent: short texts over 'a', '\n' and e-acute, behind a padding that
\* puts their encoding below, at and above one and two chunk lengths.
Payloads ==
    {Pad(n) \o t : n \in {0, SendChunkLength - 4, 2 * SendChunkLength - 4},
                   t \in SeqsUpTo({97, 10, 233}, MaxPayloadLen)}

\* Two of them: one that fits one chunk, one that takes two.
FewPayloads == {<<97, 10>>, Pad(SendChunkLength - 4) \o <<10>>}

Init == LRFresh /\ BatchedIdle /\ SessionFresh

\* Monocle(): a session constructed without an address.
InitNoAddress == Init /\ address = None

UserAdd == next_line_listener_id <= MaxTokens /\ AddLineListener({PlainListener})
UserRemove == RemoveLineListener(1..MaxTokens)
UserSend == Send(FewPayloads)
UserInstall ==
    /\ installs.calls < MaxInstalls
    /\ touch_events_installed \/ next_line_listener_id <= MaxTokens
    /\ InstallTouchEvents

\* A notification that carries "x", while the session is subscribed.
Receive == OnNotify({<<120>>}) /\ Len(line_reader'.current_line) <= MaxPending

Next ==
    \/ Connect
    \/ Disconnect
    \/ UserSend
    \/ SendResume
    \/ UserInstall
    \/ UserAdd
    \/ UserRemove
    \/ Receive

Spec == InitNoAddress /\ [][Next]_vars

(***************************************************************************)
(* SpecSend: a session whose caller connects, disconnects and sends texts  *)
(* of every length around the chunk length.                                *)
(***************************************************************************)
AnySend == Send(Payloads)

SendNext ==
    \/ Connect
    \/ Disconnect
    \/ AnySend
    \/ SendResume

SpecSend == InitNoAddress /\ [][SendNext]_vars

(***************************************************************************)
(* SpecConn: a session whose connect(), disconnect() and send() calls run  *)
(* as tasks of one event loop: each is suspended at its awaits, where the  *)
(* others take their steps.                                                *)
(***************************************************************************)
TaskSend == Send(FewPayloads)

ConnNext ==
    \/ ConnectBegin
    \/ ConnectResume
    \/ DisconnectBegin
    \/ DisconnectResume
    \/ TaskSend
    \/ SendResume

SpecConn == Init /\ [][ConnNext]_vars

(***************************************************************************)
(* SpecNotify: a connected session, with touch events installed or not,    *)
(* that receives notifications while its caller adds and removes listeners *)
(* and sets touch callbacks.                                               *)
(***************************************************************************)
\* The session after connect() ...
Connected ==
    /\ connected = TRUE
    /\ client = "client"
    /\ out_channel = "rx"
    /\ in_channel = "tx"
    /\ address = DiscoveredAddress
    /\ conn_pc = "idle"
    /\ conn_address = None
    /\ disc_pc = "idle"
    /\ a_callback = None
    /\ b_callback = None
    /\ send_pc = "idle"
    /\ send_buffer = <<>>
    /\ send_cursor = 0
    /\ notify_log = NoNotify

\* ... and nothing else,
ConnectedOnly ==
    /\ Connected
    /\ line_listeners = <<>>
    /\ next_line_listener_id = 1
    /\ issued = <<>>
    /\ touch_events_installed = FALSE
    /\ send_log = [caller |-> "none", input |-> <<>>, writes |-> <<>>, outcome |-> "none"]
    /\ installs = [calls |-> 0, sent |-> 0]
    /\ event = [op |-> "connect", outcome |-> "ok", what |-> "", arg |-> 0,
                io |-> <<Call("discover", None, "1"), Call("connect", DiscoveredAddress, "ok"), Call("services", DiscoveredAddress, "uart"),
                         Call("characteristics", DiscoveredAddress, "tx+rx"),
                         Call("start_notify", DiscoveredAddress, "ok")>>]

\* ... or after connect() and an install_touch_events() that returned.
ConnectedInstalled ==
    /\ Connected
    /\ line_listeners = <<[token |-> 1, listener |-> TouchListener]>>
    /\ next_line_listener_id = 2
    /\ issued = <<1>>
    /\ touch_events_installed = TRUE
    /\ send_log = LET buffer == Utf8Encode(SendWrap(TOUCH_CALLBACK_COMMAND))
                  IN [caller |-> "install_touch_events", input |-> TOUCH_CALLBACK_COMMAND,
                      writes |-> <<SubSeq(buffer, 1, SendChunkLength),
                                   SubSeq(buffer, SendChunkLength + 1, Len(buffer))>>,
                      outcome |-> "returned"]
    /\ installs = [calls |-> 1, sent |-> 1]
    /\ event = [op |-> "write_gatt_char", outcome |-> "ok", what |-> "", arg |-> 0, io |-> <<>>]

NotifyInit == LRFresh /\ BatchedIdle /\ (ConnectedOnly \/ ConnectedInstalled)

\* Listeners the caller adds: a plain one and ones that remove a token.
UserListeners == {PlainListener} \cup {RemovingListener(t) : t \in 1..MaxTokens}

\* "x\r\n" ... as the transport delivers them: an unfinished "x", a lone
\* carriage return, an empty line, lines with one marker, with both, with a
\* marker inside other text, two lines at once, and a byte that is no UTF-8.
NotifyBytes ==
    {<<120>>, <<13>>, SEP,
     TOUCH_A_MARKER \o SEP, TOUCH_B_MARKER \o SEP,
     TOUCH_A_MARKER \o TOUCH_B_MARKER \o SEP,
     <<120>> \o TOUCH_B_MARKER \o <<120>> \o SEP,
     <<120>> \o SEP \o TOUCH_A_MARKER \o SEP,
     <<195>>}

NotifyAdd == next_line_listener_id <= MaxTokens /\ AddLineListener(UserListeners)
NotifyRemove == RemoveLineListener(1..MaxTokens)
Notify == OnNotify(NotifyBytes) /\ Len(line_reader'.current_line) <= MaxPending

NotifyNext ==
    \/ Notify
    \/ NotifyAdd
    \/ NotifyRemove
    \/ SetATouchCallback
    \/ SetBTouchCallback

SpecNotify == NotifyInit /\ [][NotifyNext]_vars

(***************************************************************************)
(* Claims.                                                                 *)
(***************************************************************************)
\* ceil(n / s) for n >= 0, s > 0.
CeilDiv(n, s) == (n + s - 1) \div s

\* T split on the separator, the last piece dropped.
CompleteLines(T, sep) == SubSeq(Split(T, sep), 1, Len(Split(T, sep)) - 1)

\* C1: however a text T is cut into input() calls, the lines get_lines() has
\* returned so far followed by the lines still ready are T split on the
\* separator with the last piece dropped.
C1_ChunkBoundaryIndependence ==
    got \o line_reader.lines = CompleteLines(fed, line_reader.sep)

\* The items of the dict that hold the touch listener.
TouchEntries(listeners) ==
    {i \in 1..Len(listeners) : listeners[i].listener = TouchListener}

\* marker is a substring of line.
HasMarker(line, marker) ==
    \E i \in 1..Len(line) :
        /\ i + Len(marker) - 1 <= Len(line)
        /\ SubSeq(line, i, i + Len(marker) - 1) = marker

\* How often x occurs in the sequence q.
Count(q, x) == Cardinality({i \in 1..Len(q) : q[i] = x})

\* C2: when a listener invoked for a line removes a registered listener (itself
\* or another one) from inside its callback, the dispatch of that line ends
\* without error and has invoked every listener registered at its start
\* exactly once.  Stated for the first removal of a notification, whose line
\* starts with the registry the handler started with.
C2_DispatchToleratesRemoval ==
    LET reg == notify_log.registered
        calls == notify_log.calls
        TargetOf(c) == reg[CHOOSE i \in 1..Len(reg) : reg[i].token = c.token].listener.target
        Removes(i) == calls[i].kind = "remove" /\ TargetOf(calls[i]) \in Tokens(reg)
    IN \A i \in 1..Len(calls) :
           (Removes(i) /\ \A j \in 1..(i - 1) : ~Removes(j)) =>
               /\ notify_log.error_at # calls[i].k
               /\ \A t \in Tokens(reg) :
                      Cardinality({j \in 1..Len(calls) :
                                      calls[j].token = t /\ calls[j].k = calls[i].k}) = 1

\* C3: for a send() that got past its connection check, every chunk written
\* has at most MTU - 3 bytes and the chunks written so far, in order, are the
\* start of 0x03 0x01, the text with each "\n" replaced by "\r\n", 0x04 (UTF-8
\* encoded); when send() returns they are all of it, in ceil(length / (MTU - 3))
\* writes.
C3_OutboundFraming ==
    LET framed == Utf8Encode(<<3, 1>> \o ReplaceLF(send_log.input) \o <<4>>)
        w == send_log.writes
        sent == Concat(w)
    IN send_log.outcome \in {"pending", "returned", "BleakError", "AttributeError"} =>
           /\ \A i \in 1..Len(w) : Len(w[i]) <= MTU_SIZE - 3
           /\ Len(sent) <= Len(framed)
           /\ sent = SubSeq(framed, 1, Len(sent))
           /\ send_log.outcome = "returned" =>
                  /\ sent = framed
                  /\ Len(w) = CeilDiv(Len(framed), MTU_SIZE - 3)

\* C3 witness: a returned send of a text with a line feed and a two-byte
\* character that took three writes.
C3_Witness ==
    /\ send_log.outcome = "returned"
    /\ send_log.caller = "send"
    /\ Len(send_log.writes) = 3
    /\ Count(send_log.input, 10) > 0
    /\ Count(send_log.input, 233) > 0

\* C4: a send() call on a session that is not connected ends in the
\* not-connected error (MonocleException), writes nothing, and leaves the
\* connection state, the LineReader, the listener registry and the touch
\* decoder state as they were.
C4_SendWhileDisconnected ==
    [][(event'.op = "send" /\ ~connected) =>
           /\ event'.outcome = "MonocleException"
           /\ send_log'.outcome = "MonocleException"
           /\ send_log'.writes = <<>>
           /\ send_pc' = "idle"
           /\ UNCHANGED <<connVars, line_reader, registryVars, touchVars>>]_vars

\* C4 witness: a refused send() on a session that was connected before, holds
\* an unfinished line, listeners and an installed touch decoder.
C4_Witness ==
    /\ event.op = "send"
    /\ event.outcome = "MonocleException"
    /\ ~connected
    /\ address # None
    /\ line_reader.current_line # <<>>
    /\ Len(line_listeners) >= 2
    /\ touch_events_installed

\* C5: the n-th add_line_listener call of a session returns token n, whatever
\* was removed in between.
C5_TokensCountUp == \A n \in 1..Len(issued) : issued[n] = n

\* C5 witness: an add_line_listener call that returned 2 after token 1 was
\* removed.
C5_Witness ==
    /\ event.op = "add_line_listener"
    /\ issued = <<1, 2>>
    /\ Tokens(line_listeners) = {2}

\* C6: remove_line_listener(token) with a token that is not in the registry
\* ends in an error and leaves the registry and the token counter as they
\* were; with a registered token it removes that mapping and no other.
C6_RemoveListener ==
    [][event'.op = "remove_line_listener" =>
           /\ next_line_listener_id' = next_line_listener_id
           /\ issued' = issued
           /\ IF event'.arg \in Tokens(line_listeners)
              THEN /\ event'.outcome = "ok"
                   /\ line_listeners' =
                          SelectSeq(line_listeners, LAMBDA e : e.token # event'.arg)
                   /\ Len(line_listeners') = Len(line_listeners) - 1
              ELSE /\ event'.outcome # "ok"
                   /\ line_listeners' = line_listeners]_vars

\* C6 witness: a remove_line_listener of a token that was issued and removed
\* before, failing while another listener is registered.
C6_Witness ==
    /\ event.op = "remove_line_listener"
    /\ event.outcome = "KeyError"
    /\ event.arg < next_line_listener_id
    /\ line_listeners # <<>>

\* C7: when an install_touch_events() call on a connected session has
\* returned, the registry holds exactly one entry for the touch decoder.
C7_InstallIdempotent ==
    (/\ event.op = "write_gatt_char"
     /\ send_log.caller = "install_touch_events"
     /\ send_log.outcome = "returned") =>
        Cardinality(TouchEntries(line_listeners)) = 1

\* C8: for every line handed to the touch decoder, the A callback is called
\* once if the line contains "[EVENT:touch-A]" and an A callback is set, and
\* not at all otherwise; likewise the B callback for "[EVENT:touch-B]"; nothing
\* else is called.
C8_TouchDecoding ==
    \A i \in 1..Len(notify_log.calls) :
        LET c == notify_log.calls[i]
        IN c.kind = "touch" =>
               /\ Count(c.fired, "a_cb") =
                      (IF HasMarker(c.line, TOUCH_A_MARKER) /\ a_callback = "a_cb"
                       THEN 1 ELSE 0)
               /\ Count(c.fired, "b_cb") =
                      (IF HasMarker(c.line, TOUCH_B_MARKER) /\ b_callback = "b_cb"
                       THEN 1 ELSE 0)
               /\ Len(c.fired) = Count(c.fired, "a_cb") + Count(c.fired, "b_cb")

\* C8 witness: a line with both markers, both callbacks set, both called.
C8_Witness ==
    \E i \in 1..Len(notify_log.calls) :
        /\ notify_log.calls[i].kind = "touch"
        /\ HasMarker(notify_log.calls[i].line, TOUCH_A_MARKER)
        /\ HasMarker(notify_log.calls[i].line, TOUCH_B_MARKER)
        /\ notify_log.calls[i].fired = <<"a_cb", "b_cb">>

\* The session holds no transport handle.
NoHandles == client = None /\ out_channel = None /\ in_channel = None

\* C11: a connect() call made with no address configured scans first; when the
\* scan finds no device or more than one, the call ends in the discovery error
\* (MonocleException "Expected 1 device"), has made no connect call and no
\* second scan, and leaves the connection fields as they were: no address, and
\* no handles on a session that was disconnected.  When the scan finds one
\* device, the connect call is made on that device's address, which is the one
\* stored when the call succeeds.
C11_DiscoveryErrors ==
    [][(event'.op = "connect" /\ conn_pc = "awaiting" /\ conn_address = None) =>
           /\ event'.io # <<>>
           /\ event'.io[1].call = "discover"
           /\ IF event'.io[1].gave # "1"
              THEN /\ event'.outcome = "MonocleException"
                   /\ event'.what = "Expected 1 device"
                   /\ Len(event'.io) = 1
                   /\ UNCHANGED connVars
                   /\ address' = None
                   /\ ~connected => (~connected' /\ NoHandles')
              ELSE /\ Len(event'.io) >= 2
                   /\ event'.io[2].call = "connect"
                   /\ event'.io[2].on = DiscoveredAddress
                   /\ \A i \in 2..Len(event'.io) : event'.io[i].call # "discover"
                   /\ event'.outcome = "ok" => address' = DiscoveredAddress]_vars

\* C11 witness: a connect() without address whose scan found several devices
\* has failed, on a session that is disconnected and has no address.
C11_Witness ==
    /\ event.op = "connect"
    /\ event.outcome = "MonocleException"
    /\ event.io = <<Call("discover", None, "many")>>
    /\ ~connected
    /\ NoHandles
    /\ address = None

\* A connect() call met a device without the UART service, without the TX
\* characteristic or without the RX characteristic.
EndpointMissing(io) ==
    \E i \in 1..Len(io) :
        \/ io[i].call = "services" /\ io[i].gave = "none"
        \/ io[i].call = "characteristics" /\ io[i].gave # "tx+rx"

\* C12: a connect() call that meets a device without the UART service, without
\* the TX characteristic or without the RX characteristic ends in a
\* MonocleException and leaves the connection fields as they were.
C12_EndpointErrors ==
    [][(event'.op = "connect" /\ EndpointMissing(event'.io)) =>
           /\ event'.outcome = "MonocleException"
           /\ UNCHANGED connVars]_vars

\* C13: a disconnect() call on a session that is not connected returns
\* normally, makes no transport call and leaves the connection fields, the
\* LineReader, the registry, the touch state and a send in flight as they
\* were.  A disconnect() call on a connected session calls the transport's
\* disconnect once, and when that has returned the session is disconnected
\* and holds no handles.
C13_DisconnectNoop ==
    [][(event'.op = "disconnect") =>
           IF disc_pc = "idle"
           THEN IF ~connected
                THEN /\ event'.outcome = "ok"
                     /\ event'.io = <<>>
                     /\ disc_pc' = "idle"
                     /\ UNCHANGED <<connVars, line_reader, registryVars, touchVars, sendVars,
                                    conn_pc, conn_address>>
                ELSE /\ Len(event'.io) = 1
                     /\ event'.io[1].call = "disconnect"
                     /\ disc_pc' = "awaiting"
           ELSE /\ event'.io = <<>>
                /\ event'.outcome = "ok" => (~connected' /\ NoHandles')]_vars

\* C13 witness: a disconnect() call has returned early on a session that was
\* connected and disconnected before.
C13_Witness ==
    /\ event = [op |-> "disconnect", outcome |-> "ok", what |-> "", arg |-> 0, io |-> <<>>]
    /\ ~connected
    /\ address # None
    /\ disc_pc = "idle"

\* C14: after every input() call, the pending partial line of the LineReader
\* (current_line) contains no complete occurrence of the separator.
C14_PendingHasNoSeparator == ~Contains(line_reader.current_line, line_reader.sep)

\* C15: the touch decoder is an entry of the listener registry if and only if
\* touch_events_installed is true.
C15_DecoderMembership == (TouchEntries(line_listeners) # {}) <=> touch_events_installed

\* C16: touch_events_installed is true, or the decoder registered, only if the
\* install command of some install_touch_events() call got past send()'s
\* connection check; an install_touch_events() call that ends in the
\* not-connected error on a session where none did leaves the flag false and
\* the decoder unregistered.
C16_InstalledMeansSent ==
    (touch_events_installed \/ TouchEntries(line_listeners) # {}) => installs.sent >= 1

\* C17: within one send() the chunks are written one after the other and a
\* failure stops the send.  The list of chunks written changes only by one
\* chunk appended, at the start of the send or when the awaited write has
\* completed without error, and the chunk appended is the next unsent part of
\* the buffer; when the awaited write fails no chunk is written, the send ends
\* and ends in that failure; a send ends as returned only when the write it
\* awaited completed without error and the whole buffer was written.
C17_SequentialFailFast ==
    [][/\ (event'.op = "write_gatt_char" /\ event'.outcome # "ok") =>
              /\ send_log'.writes = send_log.writes
              /\ send_pc' = "idle"
              /\ send_log'.outcome = "BleakError"
       /\ (event'.op = "write_gatt_char" /\ event'.outcome = "ok") =>
              /\ \/ send_log'.writes = send_log.writes
                 \/ /\ send_pc' = "awaiting"
                    /\ send_log'.writes =
                           Append(send_log.writes,
                                  PySlice(send_buffer, Len(Concat(send_log.writes)),
                                          Len(Concat(send_log.writes)) + MTU_SIZE - 3))
                    /\ Len(send_log'.writes[Len(send_log'.writes)]) > 0
              /\ send_log'.outcome = "returned" <=> Concat(send_log.writes) = send_buffer
              /\ send_log'.outcome = "returned" => send_log'.writes = send_log.writes
       /\ event'.op \in {"send", "install_touch_events"} => send_log'.outcome # "returned"
       /\ event'.op \notin {"send", "install_touch_events", "write_gatt_char"} =>
              send_log' = send_log]_vars

\* C17 witness: a send() of three chunks whose second write failed, so that
\* two chunks were written and the third never was.
C17_Witness ==
    /\ event.op = "write_gatt_char"
    /\ event.outcome = "BleakError"
    /\ send_log.outcome = "BleakError"
    /\ Len(send_log.writes) = 2
    /\ Len(Utf8Encode(SendWrap(send_log.input))) > 2 * (MTU_SIZE - 3)

\* The lines, each followed by the separator, as one text.
RECURSIVE Terminated(_, _)
Terminated(lines, sep) ==
    IF lines = <<>> THEN <<>> ELSE Head(lines) \o sep \o Terminated(Tail(lines), sep)

\* C18: a notification that is decoded, on a session none of whose listeners
\* removes a listener, delivers the lines the LineReader completes, and only
\* them: the pending text and the notification's text together are the lines
\* delivered, each followed by the separator, and the text still pending, which
\* is not delivered.  Every line goes once to each listener registered at the
\* time of the notification, line after line in stream order and listener after
\* listener in registration order, to no other listener; and when the handler
\* has returned the LineReader holds no ready line.
C18_InboundExactlyOnce ==
    [][(/\ event'.op = "_on_notify"
        /\ event'.outcome # "UnicodeDecodeError"
        /\ \A i \in 1..Len(line_listeners) : line_listeners[i].listener.kind # "remove") =>
           LET log == notify_log'
               n == Len(line_listeners)
           IN /\ event'.outcome = "ok"
              /\ log.error = "none"
              /\ line_listeners' = line_listeners
              /\ line_reader.lines = <<>>
              /\ line_reader'.lines = <<>>
              /\ line_reader.current_line \o log.text =
                     Terminated(log.lines, line_reader.sep) \o line_reader'.current_line
              /\ Len(log.calls) = Len(log.lines) * n
              /\ \A k \in 1..Len(log.lines) : \A j \in 1..n :
                     LET c == log.calls[(k - 1) * n + j]
                     IN /\ c.token = line_listeners[j].token
                        /\ c.k = k
                        /\ c.line = log.lines[k]]_vars

\* C18 witness: a notification that completed two lines, each delivered to the
\* two listeners registered.
C18_Witness ==
    /\ event.op = "_on_notify"
    /\ Len(notify_log.lines) = 2
    /\ Len(notify_log.registered) = 2
    /\ Len(notify_log.calls) = 4
    /\ notify_log.error = "none"
    /\ line_listeners = notify_log.registered

\* The session is connected if and only if it holds each handle.
HandlesIffConnected ==
    /\ connected <=> client # None
    /\ connected <=> out_channel # None
    /\ connected <=> in_channel # None

\* C19: in every state between the steps of connect() and disconnect() calls
\* that run as tasks and may fail at any transport call, the session holds a
\* client, an out-channel and an in-channel exactly when it is connected; and
\* a connect() that fails on a disconnected session leaves it disconnected.
C19_ConnectionState ==
    [][/\ HandlesIffConnected
       /\ HandlesIffConnected'
       /\ (event'.op = "connect" /\ event'.outcome \notin {"ok", "pending"} /\ ~connected) =>
              (~connected' /\ NoHandles')]_vars

\* C19 witness: a connect() whose subscription failed, after the link was up
\* and the endpoints were found, on a session that is disconnected.
C19_Witness ==
    /\ event.op = "connect"
    /\ event.outcome = "BleakError"
    /\ event.what = "start_notify"
    /\ ~connected
    /\ NoHandles

\* C20: when the write a send() awaits completes on a session that a
\* disconnect() has left disconnected meanwhile, the send() writes no further
\* chunk; if chunks were unsent it ends in an error; and the session stays
\* disconnected with no handles.
C20_DisconnectDuringSend ==
    [][(event'.op = "write_gatt_char" /\ ~connected) =>
           /\ send_log'.writes = send_log.writes
           /\ send_pc' = "idle"
           /\ Len(Concat(send_log.writes)) < Len(send_buffer) =>
                  send_log'.outcome \in {"AttributeError", "BleakError"}
           /\ ~connected'
           /\ NoHandles']_vars

\* C20 witness: a two-chunk send() that wrote its first chunk, was overtaken
\* by a disconnect() and ended in the error of a missing client.
C20_Witness ==
    /\ event.op = "write_gatt_char"
    /\ event.outcome = "ok"
    /\ send_log.outcome = "AttributeError"
    /\ Len(send_log.writes) = 1
    /\ ~connected
    /\ NoHandles

\* C9: for a chunk length s > 0, batched(buffer, s) never yields more than
\* ceil(N/s) chunks, what it has yielded is the buffer up to the cursor, and
\* once exhausted it has yielded exactly ceil(N/s) chunks, each of length s
\* but the last, the last of length 1..s, whose concatenation is the buffer
\* (so an empty buffer yields no chunk); it is never stuck before exhaustion.
C9_ChunkerTotality ==
    b_length > 0 =>
        LET N == Len(b_iterable)
            k == Len(b_out)
        IN /\ k <= CeilDiv(N, b_length)
           /\ Concat(b_out) = SubSeq(b_iterable, 1, Min(b_cursor, N))
           /\ \A i \in 1..(k - 1) : Len(b_out[i]) = b_length
           /\ k > 0 => Len(b_out[k]) \in 1..b_length
           /\ b_pc = "running" =>
                  \/ BatchedHasNext(b_iterable, b_cursor) /\ k < CeilDiv(N, b_length)
                  \/ ~BatchedHasNext(b_iterable, b_cursor)
           /\ b_pc = "done" =>
                  /\ k = CeilDiv(N, b_length)
                  /\ Concat(b_out) = b_iterable
                  /\ (N = 0 => b_out = <<>>)

\* C9 witness: an exhausted generator that yielded several chunks, the last
\* one shorter than the chunk length.
C9_Witness ==
    /\ b_pc = "done"
    /\ b_length > 1
    /\ Len(b_out) >= 2
    /\ Len(b_out[Len(b_out)]) < b_length

\* C10: for a non-empty buffer and a chunk length <= 0, batched() fails
\* instead of producing chunks: no chunk is ever yielded.
C10_NonPositiveLengthFails ==
    (b_length <= 0 /\ b_iterable # <<>>) => b_out = <<>>

====
